---- MODULE Spec2Model ----
(***************************************************************************)
(* SelfQA (lpm_kernel/L2/data_pipeline/data_prep/selfqa/selfqa_generator)  *)
(* as a state machine: construction, _get_question_list, and generate_qa   *)
(* with its ThreadPoolExecutor(max_workers=2), the futures it submits, the *)
(* as_completed drain loop and get_openai_response.                        *)
(*                                                                         *)
(* Strings of the Chinese catalogs are written in ASCII with a "zh:"       *)
(* prefix (the module language has no non-ASCII string literals); each     *)
(* stands for the catalog entry at the same position.                      *)
(***************************************************************************)
EXTENDS Naturals, Sequences, FiniteSets, TLC

VARIABLES
    pc,                       \* position of the calling thread
    user_name,                \* self.user_name
    user_input_introduction,  \* self.user_input_introduction
    user_global_bio,          \* self.user_global_bio
    preferred_language,       \* self.preferred_language
    client,                   \* self.client
    model_name,               \* self.model_name
    selfqa_prompt,            \* the imported templates system_prompt_en / _cn
    max_workers,              \* size of the ThreadPoolExecutor
    q_list,                   \* generate_qa: q_list
    system_prompt,            \* generate_qa: system_prompt
    q_a_list,                 \* generate_qa: q_a_list
    submitted,                \* number of futures in future_to_question
    future_state,             \* per future: NONE / PENDING / RUNNING / FINISHED
    future_result,            \* per future: its result or exception
    work_queue,               \* executor's FIFO of work items not yet taken
    call_outcome,             \* per future: what the external call did
    as_finished,              \* as_completed: futures found finished at its start
    as_pending,               \* as_completed: futures still awaited
    waiter,                   \* as_completed: waiter.finished_futures
    batch,                    \* as_completed: futures being yielded after a wait
    yielded,                  \* futures the for loop has consumed
    completion_order,         \* futures in the order they finished
    log,                      \* the records logging.error was called with
    finished_at_start,        \* as_completed: the futures it found finished
    worker_local,             \* per future: where the worker holding it is
    log_handler,              \* the file of logs/ the root logger writes to, or None
    logs_dir                  \* the logs directory: its *.log files

vars == <<pc, user_name, user_input_introduction, user_global_bio,
          preferred_language, client, model_name, selfqa_prompt, max_workers,
          q_list, system_prompt, q_a_list, submitted, future_state,
          future_result, work_queue, call_outcome, as_finished, as_pending,
          waiter, batch, yielded, completion_order, log,
          finished_at_start, worker_local, log_handler, logs_dir>>

(***************************************************************************)
(* Bounds and program constants                                            *)
(***************************************************************************)
\* the model submits the first MaxBatch questions of q_list
MaxBatch == 3

\* ThreadPoolExecutor(max_workers=2)
MaxWorkers == 2

None == [tag |-> "None"]
Str(s) == [tag |-> "str", val |-> s]
Unset == "unset"

Min(a, b) == IF a < b THEN a ELSE b

(***************************************************************************)
(* Inputs                                                                  *)
(***************************************************************************)
UserNames == {"Ada"}
Introductions == {"I build engines"}
Bios == {"Mathematician"}
Languages == {"en", "Chinese", "chinese"}
LLMConfigs == {"None", "config"}

(***************************************************************************)
(* _get_question_list                                                      *)
(***************************************************************************)
question_list_en ==
    << "Who am I?",
       "How would you describe who I am?",
       "What makes me, me?",
       "If you had to sum me up, who would I be?",
       "What do you see when you think of me?",
       "What defines who I am?",
       "How would you explain my personality?",
       "Can you help me understand who I really am?" \o "Who are you?",
       "Can you tell me about yourself?",
       "What's your purpose or role here?",
       "How would you define yourself?",
       "If someone asked, how would you describe who you are?",
       "What makes you unique or different?",
       "What's your background or origin?",
       "Could you explain what you are and what you do?" >>

user_bind_question_en(name) ==
    << "Have you heard of " \o name \o " before?",
       "Are you familiar with " \o name \o "?",
       "Do you happen to know who " \o name \o " is?",
       "Have you come across " \o name \o "?",
       "Is " \o name \o " someone you know?",
       "Do you recognize the name " \o name \o "?",
       "Does " \o name \o " ring a bell for you?" >>

question_list_cn ==
    << "zh:Who am I?",
       "zh:How would you describe who I am?",
       "zh:What made me who I am now?",
       "zh:If you were to sum up who I am, what kind of person would I be?",
       "zh:What do you see when you think of me?",
       "zh:What defines who I am?",
       "zh:How would you explain my personality?",
       "zh:Can you help me understand my real self?",
       "zh:Who are you?",
       "zh:Can you introduce yourself?",
       "zh:What is your purpose or role?",
       "zh:How would you define yourself?",
       "zh:If someone asked, how would you describe who you are?",
       "zh:What makes you unique or different?",
       "zh:What is your background or origin?",
       "zh:Can you explain what you are and what you do?" >>

user_bind_question_cn(name) ==
    << "zh:Have you heard of " \o name \o "?",
       "zh:Are you familiar with " \o name \o "?",
       "zh:Do you know who " \o name \o " is?",
       "zh:Have you happened to hear of " \o name \o "?",
       "zh:" \o name \o " is someone you know?",
       "zh:Do you recognize the name " \o name \o "?",
       "zh:" \o name \o " - does this name ring a bell?" >>

_get_question_list(name, lang) ==
    IF lang # "Chinese"
    THEN question_list_en \o user_bind_question_en(name)
    ELSE question_list_cn \o user_bind_question_cn(name)

(***************************************************************************)
(* The templates of selfqa_prompt and str.format                           *)
(***************************************************************************)
Lit(s) == [lit |-> s]
Slot(f) == [slot |-> f]
IsSlot(seg) == "slot" \in DOMAIN seg

system_prompt_en ==
    << Lit("You are the Second Me of "), Slot("user_name"),
       Lit(". Introduction: "), Slot("user_input_introduction"),
       Lit(". Bio: "), Slot("user_global_bio") >>

system_prompt_cn ==
    << Lit("zh:You are the Second Me of "), Slot("user_name"),
       Lit(". zh:Introduction: "), Slot("user_input_introduction"),
       Lit(". zh:Bio: "), Slot("user_global_bio") >>

\* the templates as the spec describes them: the three named slots only
SpecPrompts == [en |-> system_prompt_en, cn |-> system_prompt_cn]

RECURSIVE format(_, _)
\* str.format(**kwargs): the text with every slot replaced, or KeyError
format(template, kwargs) ==
    IF template = << >> THEN Str("")
    ELSE LET seg == Head(template)
             rest == format(Tail(template), kwargs)
         IN  IF IsSlot(seg) /\ seg.slot \notin DOMAIN kwargs
             THEN [tag |-> "raise", exc |-> "KeyError"]
             ELSE IF rest.tag = "raise" THEN rest
             ELSE Str((IF IsSlot(seg) THEN kwargs[seg.slot] ELSE seg.lit)
                      \o rest.val)

(***************************************************************************)
(* The external model client                                               *)
(***************************************************************************)
OpenAIClient(cfg) ==
    [tag |-> "OpenAI", api_key |-> cfg.chat_api_key,
     base_url |-> cfg.chat_endpoint]

\* UserLLMConfigService.get_available_llm(): a configuration, or None
AvailableLLM(c) ==
    IF c = "None" THEN None
    ELSE [tag |-> "config", chat_model_name |-> "chat-model",
          chat_api_key |-> "key", chat_endpoint |-> "endpoint"]

\* the text a deterministic client answers a request with
Answer(messages) == "Answer to: " \o messages[2].content

\* what the environment may do to one call of the client
ExternalOutcomes(cl) ==
    IF cl = None THEN {"no_client"} ELSE {"text", "null", "raise"}

\* self.client.chat.completions.create(...), then .choices[0].message.content,
\* under outcome o
chat_completions_create(cl, messages, model, o) ==
    IF cl = None THEN [tag |-> "raise", exc |-> "AttributeError"]
    ELSE IF o = "text" THEN [tag |-> "content", content |-> Str(Answer(messages))]
    ELSE IF o = "null" THEN [tag |-> "content", content |-> None]
    ELSE [tag |-> "raise", exc |-> "APIError"]

\* get_openai_response without its try/except: the exception leaves the method
get_openai_response_unguarded(cl, model, messages, o) ==
    LET res == chat_completions_create(cl, messages, model, o)
    IN  IF res.tag = "raise"
        THEN [ret |-> None, raised |-> TRUE, logged |-> FALSE]
        ELSE [ret |-> res.content, raised |-> FALSE, logged |-> FALSE]

\* get_openai_response catching the API's errors only: the AttributeError
\* of a None client leaves the method
get_openai_response_api_errors_only(cl, model, messages, o) ==
    LET res == chat_completions_create(cl, messages, model, o)
    IN  IF res.tag = "raise"
        THEN [ret |-> None, raised |-> res.exc # "APIError",
              logged |-> res.exc = "APIError"]
        ELSE [ret |-> res.content, raised |-> FALSE, logged |-> FALSE]

\* get_openai_response: the content, or None after logging the traceback
get_openai_response(cl, model, messages, o) ==
    LET res == chat_completions_create(cl, messages, model, o)
    IN  IF res.tag = "raise"
        THEN [ret |-> None, raised |-> FALSE, logged |-> TRUE]
        ELSE [ret |-> res.content, raised |-> FALSE, logged |-> FALSE]

(***************************************************************************)
(* generate_qa: the unit of work                                           *)
(***************************************************************************)
Exception(e) == [tag |-> "exception", exc |-> e]
Dict(q, a) == [tag |-> "dict", val |-> [user |-> q, assistant |-> a]]
NoResult == [tag |-> "unset"]

\* no worker thread holds the work item of this future
NoFrame == [stage |-> "none"]

\* a file of the logs directory: its records, and whether it can be opened
\* for writing
File(content, writable) == [content |-> content, writable |-> writable]

\* the logs directory does not exist
NoDir == [exists |-> FALSE]
Dir(files) == [exists |-> TRUE, files |-> files]

\* a call of format that leaves out the global_bio argument
FormatArgs_without_bio ==
    [user_name |-> user_name,
     user_input_introduction |-> user_input_introduction]

\* lines 161-163: the keyword arguments of system_prompt.format
FormatArgs ==
    [user_name |-> user_name,
     user_input_introduction |-> user_input_introduction,
     user_global_bio |-> user_global_bio]

\* the messages list of process_question, or the exception format raised
build_messages(q) ==
    LET content == format(system_prompt, FormatArgs)
    IN  IF content.tag = "raise" THEN content
        ELSE [tag |-> "messages",
              val |-> << [role |-> "system", content |-> content.val],
                         [role |-> "user", content |-> q] >>]

\* process_question reading the question from a variable the workers share:
\* the question of the unit started last
process_question_shared_q(q, o) ==
    LET running == {i \in DOMAIN future_state : future_state[i] = "RUNNING"}
        last == CHOOSE i \in running : \A j \in running : j <= i
        shared == IF running = {} THEN q ELSE q_list[last]
        m == build_messages(shared)
        a == get_openai_response(client, model_name, m.val, o)
    IN  [result |-> IF a.ret = None THEN None ELSE Dict(shared, a.ret.val),
         called |-> TRUE,
         logged |-> IF a.logged THEN << shared >> ELSE << >>]

\* process_question building its request in a list the workers share: the
\* request sent is the one of the unit started last
process_question_shared_messages(q, o) ==
    LET running == {i \in DOMAIN future_state : future_state[i] = "RUNNING"}
        last == CHOOSE i \in running : \A j \in running : j <= i
        shared == IF running = {} THEN q ELSE q_list[last]
        m == build_messages(shared)
        a == get_openai_response(client, model_name, m.val, o)
    IN  [result |-> IF a.ret = None THEN None ELSE Dict(q, a.ret.val),
         called |-> TRUE,
         logged |-> IF a.logged THEN << q >> ELSE << >>]

\* process_question with the two fields of the pair exchanged
process_question_swapped(q, o) ==
    LET m == build_messages(q)
        a == get_openai_response(client, model_name, m.val, o)
    IN  [result |-> IF a.ret = None THEN None ELSE Dict(a.ret.val, q),
         called |-> TRUE,
         logged |-> IF a.logged THEN << q >> ELSE << >>]

\* process_question(q) under outcome o of the external call:
\* what the future ends with, whether the call was made, what was logged
process_question(q, o) ==
    LET m == build_messages(q)
    IN  IF m.tag = "raise"
        THEN [result |-> Exception(m.exc), called |-> FALSE, logged |-> << >>]
        ELSE LET a == get_openai_response(client, model_name, m.val, o)
             IN  [result |-> IF a.raised THEN Exception("APIError")
                             ELSE IF a.ret = None THEN None
                             ELSE Dict(q, a.ret.val),
                  called |-> TRUE,
                  logged |-> IF a.logged THEN << q >> ELSE << >>]

(***************************************************************************)
(* generate_qa: the executor and the drain loop                            *)
(***************************************************************************)
\* the questions the model submits
Batch == SubSeq(q_list, 1, Min(MaxBatch, Len(q_list)))
N == Len(Batch)
Units == 1..MaxBatch

Running == {i \in Units : future_state[i] = "RUNNING"}
Finished == {i \in Units : future_state[i] = "FINISHED"}

\* a pool that starts a thread for every work item
HasIdleWorker_unbounded == TRUE

\* the futures whose work item a worker thread holds, from work_queue.get
\* to the end of work_item.run()
Busy == {i \in Units : worker_local[i].stage # "none"}

\* a worker thread of the pool is in work_queue.get
HasIdleWorker == Cardinality(Busy) < max_workers

\* an aggregation that keeps a placeholder for a None result
collect_placeholder(lst, result) ==
    Append(lst, IF result # None THEN result.val
                ELSE [user |-> "", assistant |-> ""])

\* lines 183-184: append a result that is not None
collect(lst, result) ==
    IF result # None THEN Append(lst, result.val) ELSE lst

\* an iteration that ends with the futures already finished, without waiting
\* for the pending ones
DrainDone_no_wait == as_finished = {} /\ batch = << >> /\ waiter = << >>

\* as_completed has nothing more to yield: the for loop ends
DrainDone == as_finished = {} /\ batch = << >> /\ as_pending = {}

\* shutdown(wait=False): the with block is left at once
ShutdownDone_nowait == TRUE

\* ThreadPoolExecutor.__exit__: shutdown(wait=True) has joined the workers
ShutdownDone == \A i \in 1..submitted : future_state[i] = "FINISHED"

(***************************************************************************)
(* The logging environment.  src/ configures no logging and creates no     *)
(* logs directory: both are set by the application around it.              *)
(***************************************************************************)
LogFileNames == {"app.log", "b.log"}

LogEnv(handler, dir) == [handler |-> handler, dir |-> dir]

\* no handler on a file: records go to stderr; logs/ holds one file with a
\* record of an earlier run
DefaultLogging ==
    LogEnv(None, Dir([f \in {"app.log"} |-> File(<< "earlier" >>, TRUE)]))

\* a FileHandler of the root logger on logs/app.log
FileLogging ==
    LogEnv(Str("app.log"), Dir([f \in {"app.log"} |-> File(<< >>, TRUE)]))

\* no handler on a file; logs/app.log is empty, as init_routes leaves it when
\* the application starts
FreshLogging ==
    LogEnv(None, Dir([f \in {"app.log"} |-> File(<< >>, TRUE)]))

\* no logs directory
NoLogsDir == LogEnv(None, NoDir)

\* two files with earlier records, one of which cannot be opened for writing
ReadOnlyLog ==
    LogEnv(None, Dir([f \in LogFileNames |->
                        File(<< "earlier" >>, f # "app.log")]))

LogEnvs == {DefaultLogging, FreshLogging, FileLogging, NoLogsDir, ReadOnlyLog}

(***************************************************************************)
(* Initial states                                                          *)
(***************************************************************************)
InitWith(prompts, workers, logenvs) ==
    /\ pc = "new"
    /\ user_name = Unset
    /\ user_input_introduction = Unset
    /\ user_global_bio = Unset
    /\ preferred_language = Unset
    /\ client = NoResult
    /\ model_name = NoResult
    /\ selfqa_prompt \in prompts
    /\ max_workers \in workers
    /\ q_list = << >>
    /\ system_prompt = << >>
    /\ q_a_list = << >>
    /\ submitted = 0
    /\ future_state = [i \in Units |-> "NONE"]
    /\ future_result = [i \in Units |-> NoResult]
    /\ work_queue = << >>
    /\ call_outcome = [i \in Units |-> "none"]
    /\ as_finished = {}
    /\ as_pending = {}
    /\ waiter = << >>
    /\ batch = << >>
    /\ yielded = {}
    /\ completion_order = << >>
    /\ log = << >>
    /\ finished_at_start = {}
    /\ worker_local = [i \in Units |-> NoFrame]
    /\ \E e \in logenvs : log_handler = e.handler /\ logs_dir = e.dir

\* the program as it is: the templates of selfqa_prompt, a pool of 2
Init == InitWith({SpecPrompts}, {MaxWorkers}, {DefaultLogging})

(***************************************************************************)
(* Actions of the calling thread                                           *)
(***************************************************************************)
session == <<q_list, system_prompt, q_a_list, submitted, future_state,
             future_result, work_queue, call_outcome, as_finished,
             as_pending, waiter, batch, yielded, completion_order, log,
             finished_at_start, worker_local, logs_dir>>
identity == <<user_name, user_input_introduction, user_global_bio,
              preferred_language>>
handle == <<client, model_name>>
environment == <<selfqa_prompt, max_workers, log_handler>>

\* SelfQA.__init__
__init__(name, intro, bio, lang, cfg) ==
    /\ pc = "new"
    /\ user_name' = name
    /\ user_input_introduction' = intro
    /\ user_global_bio' = bio
    /\ preferred_language' = lang
    /\ LET user_llm_config == AvailableLLM(cfg)
       IN  IF user_llm_config = None
           THEN client' = None /\ model_name' = None
           ELSE /\ model_name' = Str(user_llm_config.chat_model_name)
                /\ client' = OpenAIClient(user_llm_config)
    /\ pc' = "constructed"
    /\ UNCHANGED <<session, environment>>

\* a selection that takes English for "en" only
select_system_prompt_en_only(lang) ==
    IF lang = "en" THEN selfqa_prompt.en ELSE selfqa_prompt.cn

\* lines 141-145: the template generate_qa formats
select_system_prompt(lang) ==
    IF lang # "Chinese" THEN selfqa_prompt.en ELSE selfqa_prompt.cn

\* a generate_qa that stores the language it settled on back in the object
generate_qa_normalizes ==
    /\ pc = "constructed"
    /\ q_list' = _get_question_list(user_name, preferred_language)
    /\ q_a_list' = << >>
    /\ system_prompt' = select_system_prompt(preferred_language)
    /\ preferred_language' =
          IF preferred_language # "Chinese" THEN "en" ELSE "Chinese"
    /\ pc' = "submit"
    /\ UNCHANGED <<user_name, user_input_introduction, user_global_bio,
                   handle, environment, submitted, future_state,
                   future_result, work_queue, call_outcome, as_finished,
                   as_pending, waiter, batch, yielded, completion_order, log,
                   finished_at_start, worker_local, logs_dir>>

\* generate_qa, lines 137-145
generate_qa ==
    /\ pc = "constructed"
    /\ q_list' = _get_question_list(user_name, preferred_language)
    /\ q_a_list' = << >>
    /\ system_prompt' = select_system_prompt(preferred_language)
    /\ pc' = "submit"
    /\ UNCHANGED <<identity, handle, environment, submitted, future_state,
                   future_result, work_queue, call_outcome, as_finished,
                   as_pending, waiter, batch, yielded, completion_order, log,
                   finished_at_start, worker_local, logs_dir>>

\* executor.submit(process_question, q) for the next q of q_list
submit ==
    /\ pc = "submit"
    /\ submitted < N
    /\ submitted' = submitted + 1
    /\ future_state' = [future_state EXCEPT ![submitted + 1] = "PENDING"]
    /\ work_queue' = Append(work_queue, submitted + 1)
    /\ UNCHANGED <<pc, identity, handle, environment, q_list, system_prompt,
                   q_a_list, future_result, call_outcome, as_finished,
                   as_pending, waiter, batch, yielded, completion_order, log,
                   finished_at_start, worker_local, logs_dir>>

\* a drain that begins as soon as one question is submitted
as_completed_early ==
    /\ pc = "submit"
    /\ submitted >= 1
    /\ as_finished' = Finished
    /\ finished_at_start' = Finished
    /\ as_pending' = (1..submitted) \ Finished
    /\ waiter' = << >>
    /\ pc' = "drain"
    /\ UNCHANGED <<identity, handle, environment, q_list, system_prompt,
                   q_a_list, submitted, future_state, future_result,
                   work_queue, call_outcome, batch, yielded,
                   completion_order, log, worker_local,
                   logs_dir>>

\* as_completed(future_to_question): its first step, once every question
\* is submitted, splits the futures into finished and pending
as_completed ==
    /\ pc = "submit"
    /\ submitted = N
    /\ as_finished' = Finished
    /\ finished_at_start' = Finished
    /\ as_pending' = (1..submitted) \ Finished
    /\ waiter' = << >>
    /\ pc' = "drain"
    /\ UNCHANGED <<identity, handle, environment, q_list, system_prompt,
                   q_a_list, submitted, future_state, future_result,
                   work_queue, call_outcome, batch, yielded,
                   completion_order, log, worker_local,
                   logs_dir>>

\* lines 182-184 for the future as_completed yields
consume(i) ==
    /\ yielded' = yielded \cup {i}
    /\ IF future_result[i].tag = "exception"
       THEN pc' = "unwind" /\ q_a_list' = q_a_list
       ELSE pc' = pc /\ q_a_list' = collect(q_a_list, future_result[i])

\* as_completed yields one of the futures it found finished (a set: any order)
yield_finished(i) ==
    /\ pc = "drain"
    /\ i \in as_finished
    /\ as_finished' = as_finished \ {i}
    /\ consume(i)
    /\ UNCHANGED <<identity, handle, environment, q_list, system_prompt,
                   submitted, future_state, future_result, work_queue,
                   call_outcome, as_pending, waiter, batch,
                   completion_order, log,
                   finished_at_start, worker_local, logs_dir>>

\* as_completed wakes on the waiter's event and takes what finished meanwhile
wait_event ==
    /\ pc = "drain"
    /\ as_finished = {}
    /\ batch = << >>
    /\ as_pending # {}
    /\ waiter # << >>
    /\ batch' = waiter
    /\ waiter' = << >>
    /\ UNCHANGED <<pc, identity, handle, environment, q_list, system_prompt,
                   q_a_list, submitted, future_state, future_result,
                   work_queue, call_outcome, as_finished, as_pending,
                   yielded, completion_order, log,
                   finished_at_start, worker_local, logs_dir>>

\* as_completed yielding the futures of a wake-up newest first
yield_batch_newest_first ==
    /\ pc = "drain"
    /\ as_finished = {}
    /\ batch # << >>
    /\ batch' = SubSeq(batch, 1, Len(batch) - 1)
    /\ as_pending' = as_pending \ {batch[Len(batch)]}
    /\ consume(batch[Len(batch)])
    /\ UNCHANGED <<identity, handle, environment, q_list, system_prompt,
                   submitted, future_state, future_result, work_queue,
                   call_outcome, as_finished, waiter, completion_order, log,
                   finished_at_start, worker_local, logs_dir>>

\* as_completed yields the futures of a wake-up in the order they finished
yield_batch ==
    /\ pc = "drain"
    /\ as_finished = {}
    /\ batch # << >>
    /\ batch' = Tail(batch)
    /\ as_pending' = as_pending \ {Head(batch)}
    /\ consume(Head(batch))
    /\ UNCHANGED <<identity, handle, environment, q_list, system_prompt,
                   submitted, future_state, future_result, work_queue,
                   call_outcome, as_finished, waiter, completion_order, log,
                   finished_at_start, worker_local, logs_dir>>

\* the for loop ends: the with block is left normally
loop_end ==
    /\ pc = "drain"
    /\ DrainDone
    /\ pc' = "exit"
    /\ UNCHANGED <<identity, handle, environment, session>>

\* ThreadPoolExecutor.__exit__ returns; then `return q_a_list`, or the
\* exception future.result() raised leaves generate_qa
executor_exit ==
    /\ pc \in {"exit", "unwind"}
    /\ ShutdownDone
    /\ pc' = IF pc = "exit" THEN "returned" ELSE "raised"
    /\ UNCHANGED <<identity, handle, environment, session>>

(***************************************************************************)
(* Actions of the worker threads                                           *)
(***************************************************************************)
\* thread.py _worker: a worker thread returns from work_queue.get with the
\* oldest work item; its future is still PENDING
worker_get ==
    /\ work_queue # << >>
    /\ HasIdleWorker
    /\ worker_local' = [worker_local EXCEPT
                          ![Head(work_queue)] = [stage |-> "taken"]]
    /\ work_queue' = Tail(work_queue)
    /\ UNCHANGED <<pc, identity, handle, environment, q_list, system_prompt,
                   q_a_list, submitted, future_state, future_result,
                   call_outcome, as_finished, as_pending, waiter, batch,
                   yielded, completion_order, log, finished_at_start,
                   logs_dir>>

\* work_item.run(): Future.set_running_or_notify_cancel makes the future
\* RUNNING; process_question is entered next
worker_start(i) ==
    /\ worker_local[i].stage = "taken"
    /\ future_state[i] = "PENDING"
    /\ future_state' = [future_state EXCEPT ![i] = "RUNNING"]
    /\ worker_local' = [worker_local EXCEPT ![i] = [stage |-> "running"]]
    /\ UNCHANGED <<pc, identity, handle, environment, q_list, system_prompt,
                   q_a_list, submitted, future_result, work_queue,
                   call_outcome, as_finished, as_pending, waiter, batch,
                   yielded, completion_order, log, finished_at_start,
                   logs_dir>>

\* a finishing future that does not tell the waiter
notify_lost(i) == waiter

\* the waiter as_completed installed is told of a finished future
notify(i) ==
    IF pc = "drain" /\ i \in as_pending THEN Append(waiter, i) ELSE waiter

\* a worker that puts a failed question back in the queue for another try
worker_finish_retry(i) ==
    /\ future_state[i] = "RUNNING"
    /\ worker_local[i].stage = "return"
    /\ IF worker_local[i].result = None
       THEN /\ future_state' = [future_state EXCEPT ![i] = "PENDING"]
            /\ work_queue' = Append(work_queue, i)
            /\ UNCHANGED <<future_result, completion_order, waiter>>
       ELSE /\ future_state' = [future_state EXCEPT ![i] = "FINISHED"]
            /\ future_result' =
                  [future_result EXCEPT ![i] = worker_local[i].result]
            /\ completion_order' = Append(completion_order, i)
            /\ waiter' = notify(i)
            /\ work_queue' = work_queue
    /\ worker_local' = [worker_local EXCEPT ![i] = NoFrame]
    /\ UNCHANGED <<pc, identity, handle, environment, q_list, system_prompt,
                   q_a_list, submitted, call_outcome, as_finished, as_pending,
                   batch, yielded, log, finished_at_start, logs_dir>>

\* a worker that appends its own result to q_a_list as it finishes
worker_finish_appends(i) ==
    /\ future_state[i] = "RUNNING"
    /\ worker_local[i].stage = "return"
    /\ future_result' = [future_result EXCEPT ![i] = worker_local[i].result]
    /\ q_a_list' = IF worker_local[i].result.tag = "dict"
                   THEN Append(q_a_list, worker_local[i].result.val)
                   ELSE q_a_list
    /\ future_state' = [future_state EXCEPT ![i] = "FINISHED"]
    /\ completion_order' = Append(completion_order, i)
    /\ waiter' = notify(i)
    /\ worker_local' = [worker_local EXCEPT ![i] = NoFrame]
    /\ UNCHANGED <<pc, identity, handle, environment, q_list, system_prompt,
                   submitted, work_queue, call_outcome, as_finished,
                   as_pending, batch, yielded, log, finished_at_start,
                   logs_dir>>

\* the worker of future i runs process_question(q_list[i]) up to the end of
\* the external call, whose outcome is o (lines 157-168 and 198-204): the
\* call is over and the future is still RUNNING.  A raised call leaves the
\* worker in the except block, before logging.error; otherwise
\* process_question has its return value (or the exception format raised)
worker_call(i, o) ==
    /\ future_state[i] = "RUNNING"
    /\ worker_local[i].stage = "running"
    /\ LET r == process_question(q_list[i], o)
       IN  /\ call_outcome' = [call_outcome EXCEPT
                                 ![i] = IF r.called THEN o ELSE "not_called"]
           /\ worker_local' =
                 [worker_local EXCEPT
                    ![i] = [stage |-> IF r.logged # << >> THEN "except"
                                      ELSE "return",
                            result |-> r.result,
                            logged |-> r.logged]]
    /\ UNCHANGED <<pc, identity, handle, environment, q_list, system_prompt,
                   q_a_list, submitted, future_state, future_result,
                   work_queue, as_finished, as_pending, waiter, batch,
                   yielded, completion_order, log, finished_at_start,
                   logs_dir>>

\* the root logger hands records to its handlers: a handler on a file of
\* logs/ appends them to it; with no such handler (the logging module's
\* default: stderr) no file changes
handle_records(records) ==
    IF log_handler = None THEN logs_dir
    ELSE Dir([logs_dir.files EXCEPT
                ![log_handler.val].content = @ \o records])

\* line 205: logging.error writes the traceback; then lines 206 and 170-171
\* return None.  The future is still RUNNING
worker_log_error(i) ==
    /\ future_state[i] = "RUNNING"
    /\ worker_local[i].stage = "except"
    /\ log' = log \o worker_local[i].logged
    /\ logs_dir' = handle_records(worker_local[i].logged)
    /\ worker_local' = [worker_local EXCEPT ![i].stage = "return"]
    /\ UNCHANGED <<pc, identity, handle, environment, q_list, system_prompt,
                   q_a_list, submitted, future_state, future_result,
                   work_queue, call_outcome, as_finished, as_pending, waiter,
                   batch, yielded, completion_order, finished_at_start>>

\* the executor's work item ends: Future.set_result with what
\* process_question returned, or Future.set_exception with what it raised;
\* the future is FINISHED and its waiters are told
worker_finish(i) ==
    /\ future_state[i] = "RUNNING"
    /\ worker_local[i].stage = "return"
    /\ future_result' = [future_result EXCEPT ![i] = worker_local[i].result]
    /\ future_state' = [future_state EXCEPT ![i] = "FINISHED"]
    /\ completion_order' = Append(completion_order, i)
    /\ waiter' = notify(i)
    /\ worker_local' = [worker_local EXCEPT ![i] = NoFrame]
    /\ UNCHANGED <<pc, identity, handle, environment, q_list, system_prompt,
                   q_a_list, submitted, work_queue, call_outcome, as_finished,
                   as_pending, batch, yielded, log, finished_at_start,
                   logs_dir>>

(***************************************************************************)
(* The application's start-up (lpm_kernel/api/__init__.py)                 *)
(***************************************************************************)
\* lines 25-29 for one file: open(log_file, 'w') truncates it; when the
\* open fails the exception is printed and the file is left as it is
truncate(file) ==
    IF file.writable THEN File(<< >>, TRUE) ELSE file

\* clear_log_files(), which init_routes calls: one turn of its loop over
\* logs/*.log, for file f.  Without a logs directory it returns at line 21
\* and there is no such turn.  The function is public and takes no lock, so
\* a turn may come at any moment of a session
clear_log_files(f) ==
    /\ logs_dir.exists
    /\ f \in DOMAIN logs_dir.files
    /\ logs_dir' = Dir([logs_dir.files EXCEPT ![f] = truncate(@)])
    /\ UNCHANGED <<pc, identity, handle, environment, q_list, system_prompt,
                   q_a_list, submitted, future_state, future_result,
                   work_queue, call_outcome, as_finished, as_pending, waiter,
                   batch, yielded, completion_order, log, finished_at_start,
                   worker_local>>

(***************************************************************************)
(* Specifications                                                          *)
(***************************************************************************)
Next ==
    \/ \E name \in UserNames, intro \in Introductions, bio \in Bios,
          lang \in Languages, cfg \in LLMConfigs :
          __init__(name, intro, bio, lang, cfg)
    \/ generate_qa
    \/ submit
    \/ as_completed
    \/ \E i \in Units : yield_finished(i)
    \/ wait_event
    \/ yield_batch
    \/ loop_end
    \/ executor_exit
    \/ worker_get
    \/ \E i \in Units : worker_start(i)
    \/ \E i \in Units : \E o \in ExternalOutcomes(client) : worker_call(i, o)
    \/ \E i \in Units : worker_log_error(i)
    \/ \E i \in Units : worker_finish(i)
    \/ \E f \in LogFileNames : clear_log_files(f)

Spec == Init /\ [][Next]_vars

\* the pool size as a parameter: 1 worker, or the program's 2
PoolSizes == {1, MaxWorkers}
InitPool == InitWith({SpecPrompts}, PoolSizes, {DefaultLogging})
SpecPool == InitPool /\ [][Next]_vars

\* the logging environment as an external input
InitLogs == InitWith({SpecPrompts}, {MaxWorkers}, LogEnvs)
SpecLogs == InitLogs /\ [][Next]_vars


(***************************************************************************)
(* Vocabulary of the claims                                                *)
(***************************************************************************)
Pending(i) == future_state[i] = "PENDING"
IsRunning(i) == future_state[i] = "RUNNING"
Succeeded(i) ==
    future_state[i] = "FINISHED" /\ future_result[i].tag = "dict"
Failed(i) ==
    future_state[i] = "FINISHED" /\ future_result[i].tag # "dict"
Terminal(i) == Succeeded(i) \/ Failed(i)

Returned == pc = "returned"
Exited == pc \in {"returned", "raised"}
Started == pc \notin {"new", "constructed"}

\* the questions whose call gave no response text
Dropped == {i \in 1..N : call_outcome[i] # "text"}
AllSucceed == \A i \in 1..N : call_outcome[i] = "text"

Users(lst) == {lst[j].user : j \in DOMAIN lst}
Elems(seq) == {seq[j] : j \in DOMAIN seq}

(***************************************************************************)
(* C1 - C10                                                                *)
(***************************************************************************)
StartOnlyWhenFree ==
    \A i \in Units :
        (Pending(i) /\ future_state'[i] = "RUNNING")
            => Cardinality(Running) < MaxWorkers

\* C1: at most 2 units of work are Running in every reachable state, and a
\* Pending unit becomes Running only from a state with fewer than 2 Running.
C1_AtMostTwoRunning ==
    /\ [](Cardinality(Running) <= MaxWorkers)
    /\ [][StartOnlyWhenFree]_vars

\* two calls in flight while a third question waits in the queue
C1_Witness ==
    Cardinality(Running) = MaxWorkers /\ work_queue # << >>

\* C2: generate_qa is left only when every submitted unit is terminal
\* (every question submitted, every future FINISHED); when it returns, every
\* result has been consumed by the loop, and q_a_list never changes afterwards.
C2_ReturnsOnlyWhenAllTerminal ==
    /\ [](Exited => /\ submitted = N
                    /\ \A i \in 1..N : Terminal(i) /\ ~Pending(i) /\ ~IsRunning(i))
    /\ [](Returned => \A i \in 1..N : i \in yielded)
    /\ [][Exited => q_a_list' = q_a_list]_vars

\* a returned batch in which one unit succeeded and another failed
C2_Witness ==
    /\ Returned
    /\ \E i, j \in 1..N : Succeeded(i) /\ Failed(j)

\* C3: when the client gives no response text for exactly k of the n submitted
\* questions (the call raised, or its content was None), generate_qa returns
\* n - k pairs: one for each question answered, none for a dropped one.
C3_LengthIsNMinusK ==
    Returned =>
        /\ Len(q_a_list) = N - Cardinality(Dropped)
        /\ \A i \in 1..N :
              Cardinality({j \in DOMAIN q_a_list : q_a_list[j].user = q_list[i]})
                  = IF i \in Dropped THEN 0 ELSE 1
        /\ Users(q_a_list) \subseteq Elems(Batch)

\* a returned batch where the first question failed, the others succeeded,
\* and the calls did not complete in submission order
C3_Witness ==
    /\ Returned
    /\ N >= 3
    /\ call_outcome[1] = "raise"
    /\ Cardinality(Dropped) = 1
    /\ completion_order[1] # 1

\* C4: with a client whose every call succeeds, the returned list has one
\* pair per question and its user fields are exactly the submitted questions.
C4_AllSucceedAllReturned ==
    (Returned /\ AllSucceed) =>
        /\ Len(q_a_list) = N
        /\ Users(q_a_list) = Elems(Batch)

\* every call succeeded and the pairs are not in submission order
C4_Witness ==
    /\ Returned
    /\ AllSucceed
    /\ N >= 2
    /\ q_a_list[1].user # q_list[1]

\* C5: a failure of the external call stays inside its unit: no future ends
\* with an exception, generate_qa never unwinds or raises, every unit whose
\* call answered ends Succeeded with its own pair, and at the return every
\* such pair is in q_a_list.
C5_CallFailureSwallowed ==
    /\ pc \notin {"unwind", "raised"}
    /\ \A i \in Units :
          future_state[i] = "FINISHED" =>
              /\ future_result[i].tag # "exception"
              /\ call_outcome[i] = "text" => Succeeded(i)
              /\ Succeeded(i) => future_result[i].val.user = q_list[i]
    /\ Returned =>
          \A i \in 1..N : Succeeded(i) => future_result[i].val \in Elems(q_a_list)

\* the first call to complete raised; a sibling that completed later is in
\* the returned list
C5_Witness ==
    /\ Returned
    /\ \E i, j \in 1..N :
          /\ call_outcome[i] = "raise"
          /\ completion_order[1] = i
          /\ Succeeded(j)
          /\ future_result[j].val \in Elems(q_a_list)

\* C6: with no model configuration the constructor leaves client None without
\* raising, every unit of work ends with None (Absent), and generate_qa
\* returns an empty list without raising.
C6_NoClientEmptyResult ==
    (pc # "new" /\ client = None) =>
        /\ model_name = None
        /\ pc \notin {"unwind", "raised"}
        /\ \A i \in Units : future_state[i] = "FINISHED" => future_result[i] = None
        /\ q_a_list = << >>

\* generate_qa returned with a None client after running every unit
C6_Witness ==
    /\ Returned
    /\ client = None
    /\ N >= 2
    /\ \A i \in 1..N : Failed(i)
    /\ q_a_list = << >>

\* the external call of unit i failed: it raised, or there was no client
CallFailed(i) == call_outcome[i] \in {"raise", "no_client"}

\* C7: no exception leaves generate_qa: it never unwinds or raises and no
\* future ends with an exception.  Building the two messages from the system
\* template never fails, so every unit reaches its call; a unit whose call
\* failed ends with None and has no pair in the list; the only way out of
\* generate_qa is the return of the list.
C7_NoExceptionLeavesGenerateQa ==
    /\ pc \notin {"unwind", "raised"}
    /\ Started => \A i \in 1..N : build_messages(q_list[i]).tag = "messages"
    /\ \A i \in Units :
          /\ call_outcome[i] # "not_called"
          /\ future_state[i] = "FINISHED" =>
                /\ future_result[i].tag \in {"dict", "None"}
                /\ CallFailed(i) => future_result[i] = None
          /\ CallFailed(i) => q_list[i] \notin Users(q_a_list)
    /\ Exited => Returned

\* a batch that returned its one pair after one call raised and another gave
\* no content
C7_Witness ==
    /\ Returned
    /\ N >= 3
    /\ \E i, j, k \in 1..N :
          /\ call_outcome[i] = "raise"
          /\ call_outcome[j] = "null"
          /\ call_outcome[k] = "text"
    /\ Len(q_a_list) = 1

RECURSIVE sequential_run(_, _)
\* the list a single worker builds: the questions one after the other
sequential_run(qs, acc) ==
    IF qs = << >> THEN acc
    ELSE sequential_run(Tail(qs),
                        collect(acc, process_question(Head(qs), "text").result))

\* C8: with a deterministic client that always succeeds, the list returned
\* with a pool of 1 and the list returned with a pool of 2 hold the same
\* (user, assistant) pairs as the one-at-a-time run, whatever the interleaving.
C8_PoolSizeSameContent ==
    (Returned /\ AllSucceed) =>
        Elems(q_a_list) = Elems(sequential_run(Batch, << >>))

\* a run of the pool of 2 whose calls completed out of submission order
C8_Witness ==
    /\ Returned
    /\ AllSucceed
    /\ max_workers = MaxWorkers
    /\ N >= 3
    /\ completion_order[1] = 2
    /\ q_a_list[1].user = q_list[3]

\* C9: for the English selector q_list has 23 entries, 16 generic followed by
\* 7 binding ones.
C9_EnglishHas23Questions ==
    (Started /\ preferred_language # "Chinese") =>
        /\ Len(q_list) = 23
        /\ Len(question_list_en) = 16
        /\ Len(user_bind_question_en(user_name)) = 7
        /\ q_list = question_list_en \o user_bind_question_en(user_name)

EnglishQuestions(name) ==
    Elems(question_list_en) \cup Elems(user_bind_question_en(name))
ChineseQuestions(name) ==
    Elems(question_list_cn) \cup Elems(user_bind_question_cn(name))

\* C10: the Chinese catalogs and the Chinese template are used exactly when
\* preferred_language is "Chinese"; every other value gets the English
\* catalogs and the English template; catalog and template always agree.
C10_LanguageSelection ==
    Started =>
        /\ preferred_language = "Chinese" =>
              /\ Elems(q_list) = ChineseQuestions(user_name)
              /\ system_prompt = selfqa_prompt.cn
        /\ preferred_language # "Chinese" =>
              /\ Elems(q_list) = EnglishQuestions(user_name)
              /\ system_prompt = selfqa_prompt.en
        /\ (system_prompt = selfqa_prompt.cn)
              <=> (Elems(q_list) = ChineseQuestions(user_name))
        /\ \A i \in Units :
              Succeeded(i) =>
                  future_result[i].val.user \in
                      (IF preferred_language = "Chinese"
                       THEN ChineseQuestions(user_name)
                       ELSE EnglishQuestions(user_name))

\* an unrecognized language tag served from the English catalog
C10_Witness ==
    /\ Returned
    /\ preferred_language \notin {"en", "Chinese"}
    /\ system_prompt = selfqa_prompt.en
    /\ \E i \in 1..N : Succeeded(i)

(***************************************************************************)
(* C11 - C19                                                               *)
(***************************************************************************)
\* C11: q_a_list is never longer than the list of submitted questions, and at
\* the return the two lengths are equal only when every call succeeded.
C11_LengthBound ==
    /\ Len(q_a_list) <= N
    /\ (Returned /\ Len(q_a_list) = N) => AllSucceed

\* a returned list shorter than the batch, and a call that did not succeed
C11_Witness ==
    /\ Returned
    /\ N >= 2
    /\ Len(q_a_list) = N - 1
    /\ ~AllSucceed

UnitStep(i) ==
    /\ \/ future_state'[i] = future_state[i]
       \/ future_state[i] = "NONE" /\ future_state'[i] = "PENDING"
       \/ future_state[i] = "PENDING" /\ future_state'[i] = "RUNNING"
       \/ future_state[i] = "RUNNING" /\ future_state'[i] = "FINISHED"
    /\ future_state[i] = "FINISHED" =>
          /\ future_state'[i] = "FINISHED"
          /\ future_result'[i] = future_result[i]
    /\ call_outcome'[i] # call_outcome[i] =>
          /\ call_outcome[i] = "none"
          /\ future_state[i] = "RUNNING"
          /\ future_state'[i] = "RUNNING"

\* C12: each unit of work moves Pending -> Running -> {Succeeded, Failed} and
\* nothing else; a finished unit keeps its state and its result, and the
\* client is called at most once per question, while its unit is Running
\* (no retry).
C12_UnitStateMachine == [][\A i \in Units : UnitStep(i)]_vars

\* a unit whose call raised stays Failed to the return, beside one that succeeded
C12_Witness ==
    /\ Returned
    /\ \E i, j \in 1..N :
          /\ Failed(i) /\ call_outcome[i] = "raise"
          /\ Succeeded(j)
          /\ completion_order[1] = i

LogCount(q) == Cardinality({k \in DOMAIN log : log[k] = q})

\* C13: at the return every question missing from q_a_list has exactly one
\* log entry and every question with a pair has none, so the log has as many
\* entries as questions were dropped (a response without content included).
C13_OneLogEntryPerDroppedUnit ==
    Returned =>
        /\ \A i \in 1..N :
              LogCount(q_list[i]) =
                  IF q_list[i] \in Users(q_a_list) THEN 0 ELSE 1
        /\ Len(log) = Cardinality({i \in 1..N : q_list[i] \notin Users(q_a_list)})

(***************************************************************************)
(* Scheduling: the calling thread and the worker threads are operating     *)
(* system threads and every external call returns or raises, so while some *)
(* step of the program is possible, a step is eventually taken.            *)
(***************************************************************************)
Fairness == WF_vars(Next)

\* a session run after the application's start-up
InitFair == InitWith({SpecPrompts}, {MaxWorkers}, {FreshLogging})
SpecFair == InitFair /\ [][Next]_vars /\ Fairness

\* C14: under fair scheduling and calls that return or raise, generate_qa
\* returns; every submitted unit leaves Pending, finishes, and is collected.
C14_EventuallyReturns ==
    <>(/\ Returned
       /\ submitted = N
       /\ \A i \in 1..N : Terminal(i) /\ i \in yielded)

\* returned after more questions than workers, every one of them collected
C14_Witness ==
    /\ Returned
    /\ N > MaxWorkers
    /\ yielded = 1..N
    /\ work_queue = << >>

\* the unit of work whose question is q, and its place in the order in which
\* the futures finished
UnitOf(q) == CHOOSE i \in 1..N : q_list[i] = q
CompletionPos(i) == CHOOSE k \in DOMAIN completion_order : completion_order[k] = i
PairCompletionPos(j) == CompletionPos(UnitOf(q_a_list[j].user))

\* C15 as stated: the pairs of q_a_list are in the completion order of their
\* calls, whenever those calls completed.  Completion is taken at the moment
\* as_completed can observe it: the unit's future becoming FINISHED.
C15_CompletionOrder ==
    \A j, k \in DOMAIN q_a_list :
        j < k => PairCompletionPos(j) < PairCompletionPos(k)

\* C15 as amended: two pairs are in the order in which their units of work
\* finished (their futures became FINISHED) unless both had finished before
\* as_completed began; those come first, in any order among themselves.
C15_CompletionOrderAfterStart ==
    \A j, k \in DOMAIN q_a_list :
        j < k =>
            \/ PairCompletionPos(j) < PairCompletionPos(k)
            \/ /\ UnitOf(q_a_list[j].user) \in finished_at_start
               /\ UnitOf(q_a_list[k].user) \in finished_at_start

\* no unit had finished when as_completed began; the second question's unit
\* finished first and its pair is first
C15_Witness ==
    /\ Returned
    /\ N >= 3
    /\ finished_at_start = {}
    /\ AllSucceed
    /\ completion_order[1] = 2
    /\ q_a_list[1].user = q_list[2]
    /\ q_a_list[2].user = q_list[CHOOSE i \in 1..N : completion_order[2] = i]

\* a step of the for loop that takes a result
DrainStep ==
    \/ \E i \in Units : yield_finished(i)
    \/ wait_event
    \/ yield_batch

\* C16 as stated: generate_qa does not wait for all submissions before it
\* consumes results: while questions are still unsubmitted, a finished unit's
\* result can be collected.
C16_CollectsBeforeAllSubmitted ==
    (/\ pc = "submit"
     /\ submitted < N
     /\ \E i \in 1..submitted : future_state[i] = "FINISHED" /\ i \notin yielded)
        => ENABLED DrainStep

\* C16 as amended: every question is submitted before any result is consumed;
\* the drain, once begun, takes results as units finish, whatever their
\* submission order.
C16_SubmitsAllThenDrains ==
    /\ (pc = "drain" \/ yielded # {} \/ q_a_list # << >>) => submitted = N
    /\ pc = "submit" => (yielded = {} /\ q_a_list = << >>)
    /\ \A i \in yielded : future_state[i] = "FINISHED"

\* the second question's result is collected while the first is still running
C16_Witness ==
    /\ pc = "drain"
    /\ N >= 2
    /\ 2 \in yielded
    /\ future_state[1] = "RUNNING"
    /\ Len(q_a_list) = 1

\* q_a_list changes only by one append, made by a step of the calling
\* thread's for loop: no worker step writes to it
AppendByCallerOnly ==
    q_a_list' # q_a_list =>
        /\ pc = "drain"
        /\ future_state' = future_state
        /\ Len(q_a_list') = Len(q_a_list) + 1
        /\ SubSeq(q_a_list', 1, Len(q_a_list)) = q_a_list
        /\ Cardinality(yielded' \ yielded) = 1

PairCount(p) == Cardinality({j \in DOMAIN q_a_list : q_a_list[j] = p})

\* C17: appends to q_a_list never overlap: each is one step of the calling
\* thread, workers never write to the list, and at the return every unit that
\* succeeded has its pair in the list exactly once, unchanged.
C17_AppendsSerialized ==
    /\ [][AppendByCallerOnly]_vars
    /\ [](Returned =>
            /\ \A i \in 1..N :
                  Succeeded(i) => PairCount(future_result[i].val) = 1
            /\ Len(q_a_list) = Cardinality({i \in 1..N : Succeeded(i)}))

\* two calls had both completed when the drain began, and both pairs are in
\* the returned list
C17_Witness ==
    /\ Returned
    /\ Cardinality(finished_at_start) >= 2
    /\ \A i \in finished_at_start : Succeeded(i) /\ PairCount(future_result[i].val) = 1

\* C18: once constructed, the identity fields, the client handle and the
\* model name (and the imported templates) are never written: every step of
\* generate_qa and of its units of work leaves them as __init__ set them.
C18_IdentityAndClientUnchanged ==
    [][pc # "new" => UNCHANGED <<identity, handle, selfqa_prompt>>]_vars

\* a session that returned after appending pairs and logging a failure, the
\* fields still as constructed
C18_Witness ==
    /\ Returned
    /\ preferred_language = "chinese"
    /\ user_name \in UserNames
    /\ client = OpenAIClient(AvailableLLM("config"))
    /\ model_name = Str("chat-model")
    /\ q_a_list # << >>
    /\ log # << >>

\* the request process_question sends for question q: two messages, the
\* system message first, the user message (q itself) second
RequestShape(q) ==
    LET m == build_messages(q)
    IN  /\ m.tag = "messages"
        /\ Len(m.val) = 2
        /\ m.val[1].role = "system"
        /\ m.val[1].content = format(system_prompt, FormatArgs).val
        /\ m.val[2].role = "user"
        /\ m.val[2].content = q

\* C19: every pair of q_a_list carries a submitted question and the response
\* the client gave to the request whose user message was that question, and
\* each unit's result is the pair of its own question; every request is the
\* system message followed by the user message.
C19_NoCrossWiring ==
    /\ \A j \in DOMAIN q_a_list :
          /\ q_a_list[j].user \in Elems(Batch)
          /\ q_a_list[j].assistant = "Answer to: " \o q_a_list[j].user
    /\ \A i \in Units :
          Succeeded(i) =>
              /\ future_result[i].val.user = q_list[i]
              /\ future_result[i].val.assistant
                    = Answer(build_messages(q_list[i]).val)
    /\ Started => \A i \in 1..N : RequestShape(q_list[i])

\* the first two calls overlapped, the second completed first, and both pairs
\* are returned with their own answers
C19_Witness ==
    /\ Returned
    /\ N >= 2
    /\ completion_order[1] = 2
    /\ Succeeded(1) /\ Succeeded(2)
    /\ [user |-> q_list[1], assistant |-> "Answer to: " \o q_list[1]]
          \in Elems(q_a_list)
    /\ [user |-> q_list[2], assistant |-> "Answer to: " \o q_list[2]]
          \in Elems(q_a_list)

====
